---- MODULE Spec2Model ----
(***************************************************************************)
(* Model of src/example.cc: owner_ref / shared_ref / const_ref and         *)
(* owning_stack.                                                           *)
(*                                                                         *)
(* The heap is a small set of addresses; operator new returns any address  *)
(* that is not live (a freed address may be handed out again).  Named      *)
(* owner_ref objects are slots that either hold no object (out of scope)   *)
(* or hold the member _p.  assert() is active unless NDEBUG is defined;    *)
(* both builds are modelled.  Spec covers the handles and the stack,       *)
(* SpecViews the life of the views derived from handles, SpecAccess the    *)
(* access to objects through views, SpecMain the program main() itself.    *)
(***************************************************************************)
EXTENDS Integers, Sequences, FiniteSets

\* ---- bounds ------------------------------------------------------------
NumAddr == 2
NumHandles == 2
MaxStack == 2
NumSViews == 1
NumCViews == 1
\* addresses of the heap main() runs on
NumMainAddr == 3

\* ---- program constants and value sets ------------------------------------
\* nullptr
NULL == 0
\* marker of an owner_ref / view slot that holds no object (not constructed
\* or already destroyed)
NoObj == 0 - 1

Addr == 1..NumAddr
MainAddr == 1..NumMainAddr
Handles == 1..NumHandles
SViews == 1..NumSViews
CViews == 1..NumCViews
\* what is known of an object's content: whether a non-const member (Trace::bar)
\* has been applied to it since its construction
Values == BOOLEAN
Ptr == {NULL} \cup Addr
Slot == {NoObj} \cup {NULL} \cup Addr \cup MainAddr

\* for (int i = 0; i < 2; i++)
Loops == 2
\* test()'s local x, and the temporary that produce() returns in x = produce()
X == 1
Tmp == 2
\* the shared_ref and the const_ref alive in main(): a parameter of modify()
\* or the result of top(), and the parameter of look()
P == 1
Q == 1
\* positions in main() and test(): the source line, with a letter where a
\* statement takes several steps
Labels ==
    {"for", "189", "191a", "191b", "191c", "193", "196a", "196b", "196c",
     "197a", "197b", "197c", "197d", "197e", "199a", "199b", "199c",
     "201a", "201b", "201c", "202", "216", "done"}

VARIABLES
    NDEBUG,      \* TRUE: assert() compiled out
    status,      \* "running", "fatal" (abort), "ill_formed" (rejected by the compiler)
    heap,        \* Addr -> "free" | "live"
    val,         \* Addr -> content of the object at that address (see Values)
    own,         \* Handles -> owner_ref::_p of a named handle, or NoObj
    _v,          \* owning_stack::_v, bottom first, top last: the elements' _p
    stackAlive,  \* the owning_stack object exists
    sref,        \* SViews -> shared_ref::_p, or NoObj
    cref,        \* CViews -> const_ref::_p, or NoObj
    doubleFree,  \* delete was applied to an address that was not live
    last,        \* the operation performed last, with its operands and result
    pc,          \* main(): the statement to execute next
    main_i       \* main(): the loop variable i

vars == <<NDEBUG, status, heap, val, own, _v, stackAlive, sref, cref, doubleFree, last, pc, main_i>>

\* record of the last operation: op, source handle/view, destination
\* handle/view, pointer involved (result or pre-state address), and stack
\* length before the operation
Op(op, src, dst, p, n) == [op |-> op, src |-> src, dst |-> dst, p |-> p, n |-> n]

Running == status = "running"

\* ---- helpers ---------------------------------------------------------------
\* addresses held by some owner_ref (named handle or stack element)
Holders(a) ==
    Cardinality({h \in Handles : own[h] = a})
    + Cardinality({i \in 1..Len(_v) : _v[i] = a})

\* variant: assert() never stops the process
AssertFails_off(cond) == FALSE

\* assert(cond) stops the process unless NDEBUG is defined
AssertFails(cond) == ~NDEBUG /\ ~cond

\* variant: the source keeps its address
SrcAfterMove_keep(p) == p

\* other._p = nullptr: what a move leaves in the source that held p
SrcAfterMove(p) == NULL

\* variant: the destination is left empty
DstAfterMove_lost(p) == NULL

\* _p(other._p) / _p = other._p: what a move puts into the destination
DstAfterMove(p) == p

\* variant: nothing is released
Delete_noop(h0, p) == h0

\* operator delete on p: a live address becomes free
Delete(h0, p) == [h0 EXCEPT ![p] = "free"]

TypeOK ==
    /\ NDEBUG \in BOOLEAN
    /\ status \in {"running", "fatal", "ill_formed"}
    /\ DOMAIN heap \in {Addr, MainAddr}
    /\ heap \in [DOMAIN heap -> {"free", "live"}]
    /\ val \in [DOMAIN heap -> Values]
    /\ own \in [Handles -> Slot]
    /\ _v \in Seq({NULL} \cup DOMAIN heap) /\ Len(_v) <= MaxStack
    /\ stackAlive \in BOOLEAN
    /\ sref \in [SViews -> Slot]
    /\ cref \in [CViews -> Slot]
    /\ doubleFree \in BOOLEAN
    /\ pc \in Labels
    /\ main_i \in 0..Loops

\* the state in which main() enters its loop, on a heap with the addresses A:
\* the owning_stack exists and is empty, no Trace object and no handle does
InitOn(A) ==
    /\ NDEBUG \in BOOLEAN
    /\ status = "running"
    /\ heap = [a \in A |-> "free"]
    /\ val = [a \in A |-> FALSE]
    /\ own = [h \in Handles |-> NoObj]
    /\ _v = <<>>
    /\ stackAlive = TRUE
    /\ sref = [s \in SViews |-> NoObj]
    /\ cref = [c \in CViews |-> NoObj]
    /\ doubleFree = FALSE
    /\ last = Op("init", NoObj, NoObj, NULL, 0)
    /\ pc = "for"
    /\ main_i = 0

Init == InitOn(Addr)

InitMain == InitOn(MainAddr)

\* ---- owner_ref ---------------------------------------------------------------
\* variant: the handle wraps an address without regard to whether it is in use
make_owner_ref_stale(h) ==
    /\ Running
    /\ own[h] = NoObj
    /\ \E a \in DOMAIN heap :
        /\ heap' = [heap EXCEPT ![a] = "live"]
        /\ val' = [val EXCEPT ![a] = FALSE]
        /\ own' = [own EXCEPT ![h] = a]
        /\ last' = Op("make", NoObj, h, a, Len(_v))
    /\ UNCHANGED <<NDEBUG, status, _v, stackAlive, sref, cref, doubleFree>>

\* owner_ref<X> h = make_owner_ref<X>(): new X(), wrapped by owner_ref(T* p)
make_owner_ref(h) ==
    /\ Running
    /\ own[h] = NoObj
    /\ \E a \in DOMAIN heap :
        /\ heap[a] = "free"
        /\ heap' = [heap EXCEPT ![a] = "live"]
        /\ val' = [val EXCEPT ![a] = FALSE]
        /\ own' = [own EXCEPT ![h] = a]
        /\ last' = Op("make", NoObj, h, a, Len(_v))
    /\ UNCHANGED <<NDEBUG, status, _v, stackAlive, sref, cref, doubleFree>>

\* owner_ref(owner_ref&& other) : _p(other._p), constructing dst from src.
\* A failed assert aborts inside the constructor: dst never becomes an object.
owner_ref_move_ctor(dst, src) ==
    /\ Running
    /\ dst # src
    /\ own[dst] = NoObj
    /\ own[src] # NoObj
    /\ IF AssertFails(own[src] # NULL)
         THEN /\ status' = "fatal"
              /\ own' = own
         ELSE /\ status' = status
              /\ own' = [own EXCEPT ![dst] = DstAfterMove(own[src]),
                                    ![src] = SrcAfterMove(own[src])]
    /\ last' = Op("move_ctor", src, dst, own[src], Len(_v))
    /\ UNCHANGED <<NDEBUG, heap, val, _v, stackAlive, sref, cref, doubleFree>>

\* variant: without assert(_p == nullptr)
owner_ref_move_assign_nocheck(dst, src) ==
    /\ Running
    /\ own[dst] # NoObj
    /\ own[src] # NoObj
    /\ IF AssertFails(own[src] # NULL)
         THEN /\ status' = "fatal"
              /\ own' = own
         ELSE /\ status' = status
              /\ own' = [[own EXCEPT ![dst] = DstAfterMove(own[src])]
                            EXCEPT ![src] = SrcAfterMove(own[src])]
    /\ last' = Op("move_assign", src, dst, own[src], Len(_v))
    /\ UNCHANGED <<NDEBUG, heap, val, _v, stackAlive, sref, cref, doubleFree>>

\* owner_ref& operator=(owner_ref&& other), dst = std::move(src)
owner_ref_move_assign(dst, src) ==
    /\ Running
    /\ own[dst] # NoObj
    /\ own[src] # NoObj
    /\ IF AssertFails(own[src] # NULL) \/ AssertFails(own[dst] = NULL)
         THEN /\ status' = "fatal"
              /\ own' = own
         ELSE /\ status' = status
              /\ own' = [[own EXCEPT ![dst] = DstAfterMove(own[src])]
                            EXCEPT ![src] = SrcAfterMove(own[src])]
    /\ last' = Op("move_assign", src, dst, own[src], Len(_v))
    /\ UNCHANGED <<NDEBUG, heap, val, _v, stackAlive, sref, cref, doubleFree>>

\* ~owner_ref(): h goes out of scope
owner_ref_dtor(h) ==
    /\ Running
    /\ own[h] # NoObj
    /\ IF own[h] # NULL
         THEN /\ heap' = Delete(heap, own[h])
              /\ val' = [val EXCEPT ![own[h]] = FALSE]
              /\ doubleFree' = (doubleFree \/ heap[own[h]] # "live")
         ELSE UNCHANGED <<heap, val, doubleFree>>
    /\ own' = [own EXCEPT ![h] = NoObj]
    /\ last' = Op("dtor", h, NoObj, own[h], Len(_v))
    /\ UNCHANGED <<NDEBUG, status, _v, stackAlive, sref, cref>>

\* T* operator->() const { return _p; }: hands out _p, whatever it is
owner_ref_arrow(h) ==
    /\ Running
    /\ own[h] # NoObj
    /\ last' = Op("arrow", h, NoObj, own[h], Len(_v))
    /\ UNCHANGED <<NDEBUG, status, heap, val, own, _v, stackAlive, sref, cref, doubleFree>>

\* T& operator*() const { return *_p; } used to store x into the object.
\* With _p == nullptr the indirection is undefined: the process may die, or
\* carry on with a reference bound to the null address.
owner_ref_star(h, x) ==
    /\ Running
    /\ own[h] # NoObj
    /\ IF own[h] # NULL
         THEN /\ val' = [val EXCEPT ![own[h]] = x]
              /\ status' = status
         ELSE /\ val' = val
              /\ status' \in {"running", "fatal"}
    /\ last' = Op("star", h, NoObj, own[h], Len(_v))
    /\ UNCHANGED <<NDEBUG, heap, own, _v, stackAlive, sref, cref, doubleFree>>

\* ---- owning_stack -------------------------------------------------------------
\* variant: the new element is put below the stored ones
push_front(h) ==
    /\ Running
    /\ stackAlive
    /\ own[h] # NoObj
    /\ Len(_v) < MaxStack
    /\ IF AssertFails(own[h] # NULL)
         THEN /\ status' = "fatal"
              /\ UNCHANGED <<own, _v>>
         ELSE /\ status' = status
              /\ _v' = <<DstAfterMove(own[h])>> \o _v
              /\ own' = [own EXCEPT ![h] = SrcAfterMove(own[h])]
    /\ last' = Op("push", h, NoObj, own[h], Len(_v))
    /\ UNCHANGED <<NDEBUG, heap, val, stackAlive, sref, cref, doubleFree>>

\* void push(owner_ref<T>&& p) { _v.push(std::move(p)); }: the new top element
\* is move-constructed from p by owner_ref(owner_ref&&)
push(h) ==
    /\ Running
    /\ stackAlive
    /\ own[h] # NoObj
    /\ Len(_v) < MaxStack
    /\ IF AssertFails(own[h] # NULL)
         THEN /\ status' = "fatal"
              /\ UNCHANGED <<own, _v>>
         ELSE /\ status' = status
              /\ _v' = Append(_v, DstAfterMove(own[h]))
              /\ own' = [own EXCEPT ![h] = SrcAfterMove(own[h])]
    /\ last' = Op("push", h, NoObj, own[h], Len(_v))
    /\ UNCHANGED <<NDEBUG, heap, val, stackAlive, sref, cref, doubleFree>>

\* the element std::stack::top() refers to
StackTop(q) == q[Len(q)]

\* variant: the view is made by taking the top element's address out of it
top_moves ==
    /\ Running
    /\ stackAlive
    /\ IF Len(_v) > 0
         THEN /\ status' = status
              /\ _v' = [_v EXCEPT ![Len(_v)] = NULL]
              /\ last' = Op("top", NoObj, NoObj, StackTop(_v), Len(_v))
         ELSE /\ status' = "fatal"
              /\ _v' = _v
              /\ last' = Op("top", NoObj, NoObj, NULL, Len(_v))
    /\ UNCHANGED <<NDEBUG, heap, val, own, stackAlive, sref, cref, doubleFree>>

\* shared_ref<T> top() { return _v.top(); }: last.p is the _p of the returned
\* view.  std::stack::top() of an empty stack is undefined: the process may
\* die, or the view is built from whatever lies before the storage.
top ==
    /\ Running
    /\ stackAlive
    /\ IF Len(_v) > 0
         THEN /\ status' = status
              /\ last' = Op("top", NoObj, NoObj, StackTop(_v), Len(_v))
         ELSE \/ /\ status' = "fatal"
                 /\ last' = Op("top", NoObj, NoObj, NULL, Len(_v))
              \/ \E g \in Ptr :
                 /\ status' = status
                 /\ last' = Op("top", NoObj, NoObj, g, Len(_v))
    /\ UNCHANGED <<NDEBUG, heap, val, own, _v, stackAlive, sref, cref, doubleFree>>

\* owner_ref<T> pop() { owner_ref<T> r = _v.top(); _v.pop(); return r; }
\* _v.top() is an lvalue, so r is copy-initialised: that selects
\* owner_ref(const owner_ref&), which is deleted.  A program that calls pop()
\* is rejected by the compiler; no element is removed and no handle returned.
pop(h) ==
    /\ Running
    /\ stackAlive
    /\ own[h] = NoObj
    /\ status' = "ill_formed"
    /\ last' = Op("pop", NoObj, h, IF Len(_v) > 0 THEN StackTop(_v) ELSE NULL, Len(_v))
    /\ UNCHANGED <<NDEBUG, heap, val, own, _v, stackAlive, sref, cref, doubleFree>>

\* addresses deleted when every element of q is destroyed
RECURSIVE FreedBy(_)
FreedBy(q) ==
    IF q = <<>> THEN {}
    ELSE (IF StackTop(q) # NULL THEN {StackTop(q)} ELSE {})
         \cup FreedBy(SubSeq(q, 1, Len(q) - 1))

\* the elements of q that are not nullptr
NonNull(q) == SelectSeq(q, LAMBDA p : p # NULL)

\* variant: the owning_stack goes away without destroying its elements
owning_stack_dtor_shallow ==
    /\ Running
    /\ stackAlive
    /\ _v' = <<>>
    /\ stackAlive' = FALSE
    /\ last' = Op("stack_dtor", NoObj, NoObj, NULL, Len(_v))
    /\ UNCHANGED <<NDEBUG, status, heap, val, doubleFree, own, sref, cref>>

\* ~owning_stack(): _v is destroyed, and with it every element (~owner_ref)
owning_stack_dtor ==
    /\ Running
    /\ stackAlive
    /\ heap' = [a \in DOMAIN heap |-> IF a \in FreedBy(_v) THEN "free" ELSE heap[a]]
    /\ val' = [a \in DOMAIN heap |-> IF a \in FreedBy(_v) THEN FALSE ELSE val[a]]
    /\ doubleFree' = (\/ doubleFree
                      \/ \E a \in FreedBy(_v) : heap[a] # "live"
                      \/ Cardinality(FreedBy(_v)) # Len(NonNull(_v)))
    /\ _v' = <<>>
    /\ stackAlive' = FALSE
    /\ last' = Op("stack_dtor", NoObj, NoObj, NULL, Len(_v))
    /\ UNCHANGED <<NDEBUG, status, own, sref, cref>>

\* ---- shared_ref, const_ref ----------------------------------------------------
\* shared_ref(owner_ref<T>& src) : _p(src._p)
shared_ref_ctor(s, h) ==
    /\ Running
    /\ own[h] # NoObj
    /\ sref' = [sref EXCEPT ![s] = own[h]]
    /\ last' = Op("shared_ref", h, s, own[h], Len(_v))
    /\ UNCHANGED <<NDEBUG, status, heap, val, own, _v, stackAlive, cref, doubleFree>>

\* const_ref(const owner_ref<T>& src) : _p(src._p)
const_ref_from_owner(c, h) ==
    /\ Running
    /\ own[h] # NoObj
    /\ cref' = [cref EXCEPT ![c] = own[h]]
    /\ last' = Op("const_ref_owner", h, c, own[h], Len(_v))
    /\ UNCHANGED <<NDEBUG, status, heap, val, own, _v, stackAlive, sref, doubleFree>>

\* const_ref(const shared_ref<T>& src) : _p(src._p)
const_ref_from_shared(c, s) ==
    /\ Running
    /\ sref[s] # NoObj
    /\ cref' = [cref EXCEPT ![c] = sref[s]]
    /\ last' = Op("const_ref_shared", s, c, sref[s], Len(_v))
    /\ UNCHANGED <<NDEBUG, status, heap, val, own, _v, stackAlive, sref, doubleFree>>

\* shared_ref's implicit copy: d takes the _p of s
shared_ref_copy(d, s) ==
    /\ Running
    /\ sref[s] # NoObj
    /\ sref' = [sref EXCEPT ![d] = sref[s]]
    /\ last' = Op("shared_ref_copy", s, d, sref[s], Len(_v))
    /\ UNCHANGED <<NDEBUG, status, heap, val, own, _v, stackAlive, cref, doubleFree>>

\* const_ref's implicit copy: d takes the _p of c
const_ref_copy(d, c) ==
    /\ Running
    /\ cref[c] # NoObj
    /\ cref' = [cref EXCEPT ![d] = cref[c]]
    /\ last' = Op("const_ref_copy", c, d, cref[c], Len(_v))
    /\ UNCHANGED <<NDEBUG, status, heap, val, own, _v, stackAlive, sref, doubleFree>>

\* variant: a view that goes out of scope releases the object it refers to
shared_ref_dtor_deletes(s) ==
    /\ Running
    /\ sref[s] # NoObj
    /\ sref' = [sref EXCEPT ![s] = NoObj]
    /\ IF sref[s] # NULL
         THEN /\ heap' = Delete(heap, sref[s])
              /\ doubleFree' = (doubleFree \/ heap[sref[s]] # "live")
         ELSE UNCHANGED <<heap, doubleFree>>
    /\ last' = Op("shared_ref_dtor", s, NoObj, sref[s], Len(_v))
    /\ UNCHANGED <<NDEBUG, status, val, own, _v, stackAlive, cref>>

\* a view goes out of scope: shared_ref and const_ref have no destructor body
shared_ref_dtor(s) ==
    /\ Running
    /\ sref[s] # NoObj
    /\ sref' = [sref EXCEPT ![s] = NoObj]
    /\ last' = Op("shared_ref_dtor", s, NoObj, sref[s], Len(_v))
    /\ UNCHANGED <<NDEBUG, status, heap, val, own, _v, stackAlive, cref, doubleFree>>

const_ref_dtor(c) ==
    /\ Running
    /\ cref[c] # NoObj
    /\ cref' = [cref EXCEPT ![c] = NoObj]
    /\ last' = Op("const_ref_dtor", c, NoObj, cref[c], Len(_v))
    /\ UNCHANGED <<NDEBUG, status, heap, val, own, _v, stackAlive, sref, doubleFree>>

\* shared_ref: T& operator*() const { return *_p; } used to store x.  Through
\* a null or dangling _p the access is undefined: the process may die or carry
\* on; if the address has been handed out again the store hits the new object.
shared_ref_star(s, x) ==
    /\ Running
    /\ sref[s] # NoObj
    /\ IF sref[s] # NULL /\ heap[sref[s]] = "live"
         THEN /\ val' = [val EXCEPT ![sref[s]] = x]
              /\ status' = status
         ELSE /\ val' = val
              /\ status' \in {"running", "fatal"}
    /\ last' = Op("shared_star", s, NoObj, sref[s], Len(_v))
    /\ UNCHANGED <<NDEBUG, heap, own, _v, stackAlive, sref, cref, doubleFree>>

\* const_ref: const T& operator*() const { return *_p; }: a read, last.n is
\* the value seen.  Undefined through a null or dangling _p.
const_ref_star(c) ==
    /\ Running
    /\ cref[c] # NoObj
    /\ IF cref[c] # NULL /\ heap[cref[c]] = "live"
         THEN /\ status' = status
              /\ last' = Op("const_star", c, NoObj, cref[c], IF val[cref[c]] THEN 1 ELSE 0)
         ELSE /\ status' \in {"running", "fatal"}
              /\ \E g \in {0, 1} : last' = Op("const_star", c, NoObj, cref[c], g)
    /\ UNCHANGED <<NDEBUG, heap, val, own, _v, stackAlive, sref, cref, doubleFree>>

\* ---- callers -----------------------------------------------------------------
\* variant: the callee applies the non-const member through its view
look_bars(c) ==
    /\ Running
    /\ cref[c] # NoObj
    /\ IF cref[c] # NULL /\ heap[cref[c]] = "live"
         THEN /\ status' = status
              /\ val' = [val EXCEPT ![cref[c]] = TRUE]
         ELSE /\ status' \in {"running", "fatal"}
              /\ val' = val
    /\ last' = Op("look", c, NoObj, cref[c], Len(_v))
    /\ UNCHANGED <<NDEBUG, heap, own, _v, stackAlive, sref, cref, doubleFree>>

\* void look(const_ref<Trace> p) { p->foo(); }: const_ref::operator-> hands out
\* a const T*, Trace::foo is a const member.  Undefined through a null or
\* dangling _p.
look(c) ==
    /\ Running
    /\ cref[c] # NoObj
    /\ IF cref[c] # NULL /\ heap[cref[c]] = "live"
         THEN status' = status
         ELSE status' \in {"running", "fatal"}
    /\ last' = Op("look", c, NoObj, cref[c], Len(_v))
    /\ UNCHANGED <<NDEBUG, heap, val, own, _v, stackAlive, sref, cref, doubleFree>>

\* void modify(shared_ref<Trace> p) { p->bar(); look(p); }: the non-const
\* member is applied, then look() gets a const_ref made from p, which lives
\* for that call only.  Undefined through a null or dangling _p.
modify(s) ==
    /\ Running
    /\ sref[s] # NoObj
    /\ IF sref[s] # NULL /\ heap[sref[s]] = "live"
         THEN /\ val' = [val EXCEPT ![sref[s]] = TRUE]
              /\ status' = status
         ELSE /\ val' = val
              /\ status' \in {"running", "fatal"}
    /\ last' = Op("modify", s, NoObj, sref[s], Len(_v))
    /\ UNCHANGED <<NDEBUG, heap, own, _v, stackAlive, sref, cref, doubleFree>>

\* a step taken outside main() leaves main's position alone
Idle == UNCHANGED <<pc, main_i>>

Next ==
    \/ \E h \in Handles : make_owner_ref(h) /\ Idle
    \/ \E dst \in Handles, src \in Handles : owner_ref_move_ctor(dst, src) /\ Idle
    \/ \E dst \in Handles, src \in Handles : owner_ref_move_assign(dst, src) /\ Idle
    \/ \E h \in Handles : owner_ref_dtor(h) /\ Idle
    \/ \E h \in Handles : owner_ref_arrow(h) /\ Idle
    \/ \E h \in Handles, x \in Values : owner_ref_star(h, x) /\ Idle
    \/ \E h \in Handles : push(h) /\ Idle
    \/ top /\ Idle
    \/ \E h \in Handles : pop(h) /\ Idle
    \/ owning_stack_dtor /\ Idle

\* handles and the life of the views derived from them, without the stack
NextViews ==
    \/ \E h \in Handles : make_owner_ref(h) /\ Idle
    \/ \E h \in Handles : owner_ref_dtor(h) /\ Idle
    \/ \E s \in SViews, h \in Handles : shared_ref_ctor(s, h) /\ Idle
    \/ \E d \in SViews, s \in SViews : shared_ref_copy(d, s) /\ Idle
    \/ \E c \in CViews, h \in Handles : const_ref_from_owner(c, h) /\ Idle
    \/ \E c \in CViews, s \in SViews : const_ref_from_shared(c, s) /\ Idle
    \/ \E d \in CViews, c \in CViews : const_ref_copy(d, c) /\ Idle
    \/ \E s \in SViews : shared_ref_dtor(s) /\ Idle
    \/ \E c \in CViews : const_ref_dtor(c) /\ Idle

\* handles, views derived from them, and access to the object through the views
NextAccess ==
    \/ \E h \in Handles : make_owner_ref(h) /\ Idle
    \/ \E h \in Handles : owner_ref_dtor(h) /\ Idle
    \/ \E s \in SViews, h \in Handles : shared_ref_ctor(s, h) /\ Idle
    \/ \E c \in CViews, h \in Handles : const_ref_from_owner(c, h) /\ Idle
    \/ \E c \in CViews, s \in SViews : const_ref_from_shared(c, s) /\ Idle
    \/ \E s \in SViews, x \in Values : shared_ref_star(s, x) /\ Idle
    \/ \E c \in CViews : const_ref_star(c) /\ Idle
    \/ \E c \in CViews : look(c) /\ Idle
    \/ \E s \in SViews : modify(s) /\ Idle


\* ---- main() and test() ---------------------------------------------------------
\* s->top() with the returned shared_ref kept in slot s for the rest of the
\* full expression: shared_ref(owner_ref<T>&) applied to _v.top().  Undefined
\* on an empty stack, as in top.
top_view(s) ==
    /\ Running
    /\ stackAlive
    /\ IF Len(_v) > 0
         THEN /\ status' = status
              /\ sref' = [sref EXCEPT ![s] = StackTop(_v)]
              /\ last' = Op("top", NoObj, s, StackTop(_v), Len(_v))
         ELSE \/ /\ status' = "fatal"
                 /\ sref' = sref
                 /\ last' = Op("top", NoObj, s, NULL, Len(_v))
              \/ \E g \in {NULL} \cup DOMAIN heap :
                 /\ status' = status
                 /\ sref' = [sref EXCEPT ![s] = g]
                 /\ last' = Op("top", NoObj, s, g, Len(_v))
    /\ UNCHANGED <<NDEBUG, heap, val, own, _v, stackAlive, cref, doubleFree>>

\* control passes from statement l to statement m of the same loop round
Goto(l, m) == pc = l /\ pc' = m /\ main_i' = main_i

\* for (int i = 0; i < 2; i++) { test(s); }: the test of the condition; test
\* gets a shared_ref to the stack that s owns
main_for ==
    /\ Running
    /\ pc = "for"
    /\ pc' = IF main_i < Loops THEN "189" ELSE "216"
    /\ last' = Op("for", NoObj, NoObj, NULL, Len(_v))
    /\ UNCHANGED <<NDEBUG, status, heap, val, own, _v, stackAlive, sref, cref, doubleFree, main_i>>

\* auto x = produce();
test_189 == Goto("189", "191a") /\ make_owner_ref(X)

\* modify(x): the parameter is made from x, modify runs, the parameter dies
test_191a == Goto("191a", "191b") /\ shared_ref_ctor(P, X)

test_191b == Goto("191b", "191c") /\ modify(P)

test_191c == Goto("191c", "193") /\ shared_ref_dtor(P)

\* s->push(std::move(x));
test_193 == Goto("193", "196a") /\ push(X)

\* variant: modify(x) in place of modify(s->top())
test_196a_x == Goto("196a", "196b") /\ shared_ref_ctor(P, X)

\* modify(s->top());
test_196a == Goto("196a", "196b") /\ top_view(P)

test_196b == Goto("196b", "196c") /\ modify(P)

test_196c == Goto("196c", "197a") /\ shared_ref_dtor(P)

\* look(s->top()): the const_ref parameter is made from the shared_ref that
\* top() returns; both die at the end of the statement
test_197a == Goto("197a", "197b") /\ top_view(P)

test_197b == Goto("197b", "197c") /\ const_ref_from_shared(Q, P)

test_197c == Goto("197c", "197d") /\ look(Q)

test_197d == Goto("197d", "197e") /\ const_ref_dtor(Q)

test_197e == Goto("197e", "199a") /\ shared_ref_dtor(P)

\* x = produce(): produce() returns a temporary, operator=(owner_ref&&) moves
\* it into x, the temporary dies
test_199a == Goto("199a", "199b") /\ make_owner_ref(Tmp)

test_199b == Goto("199b", "199c") /\ owner_ref_move_assign(X, Tmp)

test_199c == Goto("199c", "201a") /\ owner_ref_dtor(Tmp)

\* consume(std::move(x)): p is a reference bound to x; the body is modify(p),
\* which makes its parameter from p.  Nothing is move-constructed from p.
test_201a == Goto("201a", "201b") /\ shared_ref_ctor(P, X)

test_201b == Goto("201b", "201c") /\ modify(P)

test_201c == Goto("201c", "202") /\ shared_ref_dtor(P)

\* the closing brace of test(): x goes out of scope; back to the loop, i++
test_202 ==
    /\ pc = "202"
    /\ pc' = "for"
    /\ main_i' = main_i + 1
    /\ owner_ref_dtor(X)

\* return 0; }: s goes out of scope, ~owner_ref deletes the owning_stack
main_216 == Goto("216", "done") /\ owning_stack_dtor

NextMain ==
    \/ main_for
    \/ test_189
    \/ test_191a
    \/ test_191b
    \/ test_191c
    \/ test_193
    \/ test_196a
    \/ test_196b
    \/ test_196c
    \/ test_197a
    \/ test_197b
    \/ test_197c
    \/ test_197d
    \/ test_197e
    \/ test_199a
    \/ test_199b
    \/ test_199c
    \/ test_201a
    \/ test_201b
    \/ test_201c
    \/ test_202
    \/ main_216

\* ---- properties -------------------------------------------------------------
MoveOps == {"move_ctor", "move_assign"}

\* C1: in every reachable state no address is held by more than one owner_ref
\* (named handles and stack elements together).
C1_ExclusiveOwnership == \A a \in Addr : Holders(a) <= 1

\* two owners coexist after a move and a push, each holding its own address
C1_Witness ==
    /\ last.op = "move_assign"
    /\ status = "running"
    /\ Len(_v) > 0
    /\ \E h \in Handles : own[h] \in Addr /\ own[h] # StackTop(_v)

\* C2: destroying a non-empty owner_ref turns exactly its own, live address
\* free and nothing else; destroying an empty one leaves the heap as it is;
\* delete is never applied to an address that is not live.
C2_DtorStep ==
    last'.op = "dtor" =>
        LET p == own[last'.src] IN
        IF p \in Addr
          THEN heap[p] = "live" /\ heap' = [heap EXCEPT ![p] = "free"]
          ELSE heap' = heap

C2_ExactlyOnceDestruction == [][C2_DtorStep]_vars /\ [](~doubleFree)

\* a non-empty handle has just been destroyed and its address is free
C2_Witness ==
    /\ last.op = "dtor"
    /\ last.p \in Addr
    /\ heap[last.p] = "free"

\* C3: a move from a non-empty source (for assignment: into an empty
\* destination) empties the source, gives the destination the source's
\* address, and changes neither the heap nor any object.
C3_MoveStep ==
    (/\ last'.op \in MoveOps
     /\ own[last'.src] \in Addr
     /\ last'.op = "move_assign" => own[last'.dst] = NULL)
    =>
    /\ own'[last'.src] = NULL
    /\ own'[last'.dst] = own[last'.src]
    /\ \A h \in Handles \ {last'.src, last'.dst} : own'[h] = own[h]
    /\ heap' = heap
    /\ val' = val
    /\ status' = "running"

C3_MoveTransfersOwnership == [][C3_MoveStep]_vars

\* a move assignment has carried a live address over
C3_Witness ==
    /\ last.op = "move_assign"
    /\ last.p \in Addr
    /\ own[last.dst] = last.p
    /\ own[last.src] = NULL
    /\ heap[last.p] = "live"

\* C4 as stated: a move from an empty source leaves the destination as it
\* was (a destination under construction ends up holding no address), and
\* nothing is freed twice.
C4_OrigStep ==
    (last'.op \in MoveOps /\ own[last'.src] = NULL)
    =>
    IF last'.op = "move_assign"
      THEN own'[last'.dst] = own[last'.dst]
      ELSE own'[last'.dst] \in {NoObj, NULL}

C4_Original == [][C4_OrigStep]_vars /\ [](~doubleFree)

\* C4 amended: a move from an empty source is a checked error.  With
\* assertions on it stops the process and changes no handle; with NDEBUG the
\* destination ends up empty, whatever it held.  The heap is untouched and
\* nothing is freed twice.
C4_AmendedStep ==
    (last'.op \in MoveOps /\ own[last'.src] = NULL)
    =>
    /\ heap' = heap
    /\ IF ~NDEBUG
         THEN status' = "fatal" /\ own' = own
         ELSE /\ status' = "running"
              /\ own'[last'.dst] = NULL
              /\ own'[last'.src] = NULL

C4_MoveFromEmpty == [][C4_AmendedStep]_vars /\ [](~doubleFree)

\* a second move assignment from an emptied source has stopped the process
C4_Witness ==
    /\ last.op = "move_assign"
    /\ last.p = NULL
    /\ own[last.src] = NULL
    /\ status = "fatal"

\* C5 as stated: move assignment into a non-empty destination always stops
\* the process and changes no handle.
C5_OrigStep ==
    (last'.op = "move_assign" /\ own[last'.dst] \in Addr)
    =>
    status' = "fatal" /\ own' = own /\ heap' = heap

C5_Original == [][C5_OrigStep]_vars

\* C5 amended: with assertions enabled, move assignment into a non-empty
\* destination stops the process before any handle is written; the
\* destination keeps its live referent.
C5_AmendedStep ==
    (last'.op = "move_assign" /\ own[last'.dst] \in Addr /\ ~NDEBUG)
    =>
    /\ status' = "fatal"
    /\ own' = own
    /\ heap' = heap
    /\ heap'[own'[last'.dst]] = "live"

C5_AssignIntoNonEmpty == [][C5_AmendedStep]_vars

\* a move assignment from a non-empty source into a non-empty destination
\* has stopped the process, both handles still holding their addresses
C5_Witness ==
    /\ last.op = "move_assign"
    /\ ~NDEBUG
    /\ status = "fatal"
    /\ last.p \in Addr
    /\ own[last.dst] \in Addr
    /\ own[last.dst] # last.p

\* C6: in a debug build operator-> or operator* on an empty owner_ref ends in
\* the fatal state.
C6_DerefEmptyIsFatal ==
    (~NDEBUG /\ last.op \in {"arrow", "star"} /\ last.p = NULL)
    => status = "fatal"

\* C7: the handle make_owner_ref returns is non-empty, its address was not
\* in use before the call, is live after it, and no other owner_ref holds it.
C7_MakeStep ==
    last'.op = "make" =>
        LET a == own'[last'.dst] IN
        /\ a \in Addr
        /\ a = last'.p
        /\ heap[a] = "free"
        /\ heap'[a] = "live"
        /\ Holders(a) = 0
        /\ Cardinality({h \in Handles : own'[h] = a})
           + Cardinality({i \in 1..Len(_v') : _v'[i] = a}) = 1

C7_MakeFresh == [][C7_MakeStep]_vars

\* make_owner_ref has returned a handle while another owner_ref holds a
\* different address
C7_Witness ==
    /\ last.op = "make"
    /\ own[last.dst] \in Addr
    /\ \E a \in Addr : a # own[last.dst] /\ Holders(a) = 1

\* C8: push of a non-empty handle appends the handle's address as the new
\* top, keeps the stored elements, empties the caller's handle and leaves
\* the heap and the objects as they are.
C8_PushStep ==
    (last'.op = "push" /\ own[last'.src] \in Addr)
    =>
    /\ _v' = Append(_v, own[last'.src])
    /\ Len(_v') = Len(_v) + 1
    /\ own'[last'.src] = NULL
    /\ \A h \in Handles \ {last'.src} : own'[h] = own[h]
    /\ heap' = heap
    /\ val' = val
    /\ status' = "running"

C8_PushAppends == [][C8_PushStep]_vars

\* a second element has been pushed on top of a first one
C8_Witness ==
    /\ last.op = "push"
    /\ last.n = 1
    /\ last.p \in Addr
    /\ Len(_v) = 2
    /\ _v[2] = last.p
    /\ _v[1] # last.p
    /\ own[last.src] = NULL
    /\ heap[last.p] = "live"

\* C9: pop on a non-empty stack shrinks the sequence by one and returns a
\* non-empty handle that is the sole owner of the live former top.
C9_PopTransfersOwnership ==
    (last.op = "pop" /\ last.n > 0)
    =>
    /\ Len(_v) = last.n - 1
    /\ own[last.dst] = last.p
    /\ last.p \in Addr
    /\ heap[last.p] = "live"
    /\ Holders(last.p) = 1

\* C10: top() refers to the most recently pushed element not yet popped:
\* on a non-empty stack the view holds the address of the last element, and
\* with A pushed before B, after one pop() that element is A.
C10_PopStep ==
    (last'.op = "pop" /\ Len(_v) = 2 /\ _v[1] \in Addr /\ _v[2] \in Addr)
    =>
    Len(_v') >= 1 /\ _v'[Len(_v')] = _v[1]

C10_LifoTop ==
    /\ []((last.op = "top" /\ last.n > 0) => last.p = _v[Len(_v)])
    /\ [][C10_PopStep]_vars

\* C11: top() on a non-empty stack returns a view of the top element and
\* changes nothing: the sequence, the handles, the heap and the objects are
\* as before, and the process goes on.
C11_TopStep ==
    (last'.op = "top" /\ Len(_v) > 0)
    =>
    /\ _v' = _v
    /\ own' = own
    /\ heap' = heap
    /\ val' = val
    /\ stackAlive' = stackAlive
    /\ status' = "running"
    /\ last'.p = _v'[Len(_v')]

C12_RoundTripStep ==
    (/\ last.op = "push"
     /\ last.p \in Addr
     /\ last'.op = "pop")
    =>
    /\ own'[last'.dst] = last.p
    /\ Len(_v') = last.n
    /\ _v' = SubSeq(_v, 1, last.n)
    /\ val' = val
    /\ heap'[last.p] = "live"

C12_PushPopRoundTrip == [][C12_RoundTripStep]_vars

\* C13: top() or pop() on an empty stack ends in the fatal state and leaves
\* the stack empty.
C13_EmptyStackIsFatal ==
    (last.op \in {"top", "pop"} /\ last.n = 0)
    => (status = "fatal" /\ _v = <<>>)

\* C14 as stated: in every reachable state every stored handle is non-empty.
C14_Original == \A i \in 1..Len(_v) : _v[i] # NULL

\* C14 amended: with assertions enabled every stored handle holds a live
\* address in every reachable state; a push of an empty handle stops the
\* process before anything is stored.
C14_StoredNonEmptyChecked ==
    ~NDEBUG => \A i \in 1..Len(_v) : _v[i] \in Addr /\ heap[_v[i]] = "live"

\* a push of a moved-from handle onto a non-empty stack has stopped the process
C14_Witness ==
    /\ ~NDEBUG
    /\ last.op = "push"
    /\ last.p = NULL
    /\ status = "fatal"
    /\ Len(_v) = 1
    /\ _v[1] \in Addr

\* C15: constructing, copying or destroying a shared_ref or const_ref changes
\* no owner_ref, allocates nothing and frees nothing; an address only becomes
\* free when an owner_ref (a named one or a stack element) is destroyed.
ViewLifeOps ==
    {"shared_ref", "shared_ref_copy", "shared_ref_dtor",
     "const_ref_owner", "const_ref_shared", "const_ref_copy", "const_ref_dtor"}

C15_ViewStep ==
    last'.op \in ViewLifeOps
    =>
    /\ own' = own
    /\ _v' = _v
    /\ heap' = heap
    /\ val' = val
    /\ doubleFree' = doubleFree

C15_FreeStep ==
    (\E a \in Addr : heap[a] = "live" /\ heap'[a] = "free")
    => last'.op \in {"dtor", "stack_dtor"}

C15_ViewsNonOwning == [][C15_ViewStep /\ C15_FreeStep]_vars

\* a shared_ref has gone out of scope while a const_ref made from it and the
\* owner it came from still hold the live address
C15_Witness ==
    /\ last.op = "shared_ref_dtor"
    /\ last.p \in Addr
    /\ heap[last.p] = "live"
    /\ \E h \in Handles : own[h] = last.p
    /\ \E c \in CViews : cref[c] = last.p

\* C16: no access through a const_ref (operator*, or look() with its
\* operator->) changes an object, the heap or a handle, whichever way the
\* view was derived; modify() through a shared_ref does change the object.
C16_ReadStep ==
    last'.op \in {"look", "const_star"}
    =>
    /\ val' = val
    /\ heap' = heap
    /\ own' = own
    /\ sref' = sref
    /\ cref' = cref

C16_ReadOnlyAccess == [][C16_ReadStep]_vars

\* look() has run on a live object that modify() had changed before, and the
\* change is still there
C16_Witness ==
    /\ last.op = "look"
    /\ status = "running"
    /\ last.p \in Addr
    /\ heap[last.p] = "live"
    /\ val[last.p] = TRUE
    /\ \E h \in Handles : own[h] = last.p

\* C17: when consume(std::move(x)) has returned, the object handed to it has
\* been deallocated and the caller's handle x is empty.  (At "202" consume has
\* just returned; last.p is the address its parameter referred to.)
C17_ConsumeIsSink ==
    pc = "202" => (own[X] = NULL /\ last.p \in DOMAIN heap /\ heap[last.p] = "free")

\* C18: along main() the process never stops abnormally and nothing is freed
\* twice; every view is made of, and every access goes to, a live object that
\* one owner_ref holds; between push(std::move(x)) and x = produce() x is
\* empty and no view or access is made from it; x = produce() assigns a
\* non-empty handle to the empty x.
DerefOps == {"arrow", "star", "shared_star", "const_star", "look", "modify"}

ViewMakeOps ==
    {"shared_ref", "shared_ref_copy", "const_ref_owner", "const_ref_shared",
     "const_ref_copy", "top"}

\* the operations applied to an owner_ref (last.src is the handle)
FromHandleOps == {"arrow", "star", "shared_ref", "const_ref_owner"}

AfterPush == {"196a", "196b", "196c", "197a", "197b", "197c", "197d", "197e", "199a"}

C18_Step ==
    /\ status' = "running"
    /\ doubleFree' = FALSE
    /\ last'.op \in DerefOps \cup ViewMakeOps
       => /\ last'.p \in DOMAIN heap
          /\ heap[last'.p] = "live"
          /\ Holders(last'.p) = 1
    /\ last'.op = "move_assign"
       => /\ own[last'.dst] = NULL
          /\ own[last'.src] \in DOMAIN heap
          /\ heap[own[last'.src]] = "live"
          /\ own'[last'.dst] = own[last'.src]
    /\ pc \in AfterPush
       => /\ own[X] = NULL
          /\ ~(last'.op \in FromHandleOps /\ last'.src = X)

C18_NoUseAfterFree == [][C18_Step]_vars

\* in the second call of test, x = produce() has given x a new live object
\* while the stack holds the two pushed ones
C18_Witness ==
    /\ main_i = 1
    /\ pc = "199c"
    /\ last.op = "move_assign"
    /\ status = "running"
    /\ own[X] \in DOMAIN heap
    /\ heap[own[X]] = "live"
    /\ Len(_v) = 2
    /\ \A k \in 1..2 : _v[k] \in DOMAIN heap /\ heap[_v[k]] = "live" /\ _v[k] # own[X]

\* C19: main() terminates, and from then on the stack is gone, no address is
\* live, no handle or view exists and nothing was freed twice; each time the
\* loop condition is tested the stack holds one element per finished call of
\* test; the destruction of the stack frees exactly the live elements stored
\* in it, one per call.
AllFreed == \A a \in DOMAIN heap : heap[a] = "free"

Terminated ==
    /\ pc = "done"
    /\ status = "running"
    /\ ~stackAlive
    /\ _v = <<>>
    /\ AllFreed
    /\ ~doubleFree
    /\ \A h \in Handles : own[h] = NoObj
    /\ \A s \in SViews : sref[s] = NoObj
    /\ \A c \in CViews : cref[c] = NoObj

C19_StackDtorStep ==
    last'.op = "stack_dtor"
    => /\ Len(_v) = Loops
       /\ Cardinality(FreedBy(_v)) = Loops
       /\ \A a \in FreedBy(_v) : heap[a] = "live" /\ heap'[a] = "free"
       /\ \A a \in DOMAIN heap : a \notin FreedBy(_v) => heap[a] = "free"

C19_NoLeakAtTermination ==
    /\ <>[]Terminated
    /\ [](pc = "for" => (Len(_v) = main_i /\ Cardinality({a \in DOMAIN heap : heap[a] = "live"}) = main_i))
    /\ [](~doubleFree)
    /\ [][C19_StackDtorStep]_vars

\* main() has returned after two calls of test: the stack that held two
\* elements is destroyed and nothing is live
C19_Witness ==
    /\ pc = "done"
    /\ main_i = Loops
    /\ last.op = "stack_dtor"
    /\ last.n = Loops
    /\ AllFreed
    /\ ~doubleFree

Spec == Init /\ [][Next]_vars

SpecViews == Init /\ [][NextViews]_vars

SpecAccess == Init /\ [][NextAccess]_vars

SpecMain == InitMain /\ [][NextMain]_vars

\* main() is a sequential program: whenever a statement can run, it does
SpecMainFair == SpecMain /\ WF_vars(NextMain)
====
